---- MODULE Spec2Model ----
(***************************************************************************)
(* Model of the Hebrew palindrome finder (src/src/utils/hebrew.ts) and of   *)
(* the result list of the application around it (src/src/App.tsx).         *)
(*                                                                         *)
(* A string is a sequence of UTF-16 code units (naturals).  JavaScript     *)
(* indices are 0-based: text.substring(i, j) is SubSeq(text, i + 1, j).    *)
(***************************************************************************)
EXTENDS Integers, Sequences, FiniteSets, TLC

\* one call of an exported function of hebrew.ts
VARIABLES text, called, minLength, maxLength, ret, norm

\* the App component: its state (resultsState is the state `results`), the
\* result objects its arrays refer to (objs, an array being the sequence of
\* their indexes), the arrays the lookupSource callbacks of its renders have
\* captured, the identifySource requests in flight, and the array the last
\* handleSearch or clearAll has set
VARIABLES inputText, resultsState, error, objs, rendered, pending, nextReq, lastReplaced

hebrewVars == <<text, called, minLength, maxLength, ret, norm>>

appVars == <<inputText, resultsState, error, objs, rendered, pending, nextReq, lastReplaced>>

vars == <<hebrewVars, appVars>>

---------------------------------------------------------------------------
(* Bounds of the checked inputs *)

\* longest enumerated input text
MaxLen == 4

\* code units the enumerated texts are built from:
\* alef, bet, final mem, space, comma, patah (a vowel point)
Alphabet == {1488, 1489, 1501, 32, 44, 1463}

\* "הנער אבבא רען"
TextNaar == <<1492, 1504, 1506, 1512, 32, 1488, 1489, 1489, 1488, 32, 1512, 1506, 1503>>
\* "שלום מט,י עולם"
TextShalom == <<1513, 1500, 1493, 1501, 32, 1502, 1496, 44, 1497, 32, 1506, 1493, 1500, 1501>>
\* "ךםןףץ"
TextSofit == <<1498, 1501, 1503, 1507, 1509>>
\* "כמנפצ"
TextBase == <<1499, 1502, 1504, 1508, 1510>>
\* "(מט, י) אבא."
TextParen == <<40, 1502, 1496, 44, 32, 1497, 41, 32, 1488, 1489, 1488, 46>>
\* "אַבָּא abc אבא"
TextNiqqud == <<1488, 1463, 1489, 1468, 1464, 1488, 32, 97, 98, 99, 32, 1488, 1489, 1488>>

\* the five final letters and their base forms, each as a one-letter text
TextsOneLetter == {<<c>> : c \in {1498, 1499, 1501, 1502, 1503, 1504, 1507, 1508, 1509, 1510}}

\* "אאאא א בא"
TextEarlyExit == <<1488, 1488, 1488, 1488, 32, 1488, 32, 1489, 1488>>

\* "אבא אַבָּא"
TextLaterLonger == <<1488, 1489, 1488, 32, 1488, 1463, 1489, 1464, 1468, 1488>>
\* "אבא.א,א"
TextSameStart == <<1488, 1489, 1488, 46, 1488, 44, 1488>>

Examples ==
  {TextNaar, TextShalom, TextSofit, TextBase, TextParen, TextNiqqud, TextEarlyExit,
   TextLaterLonger, TextSameStart}
    \cup TextsOneLetter

RECURSIVE StringsUpTo(_)
StringsUpTo(n) ==
  IF n = 0 THEN {<<>>}
  ELSE LET shorter == StringsUpTo(n - 1)
       IN  shorter \cup {Append(s, c) : s \in {t \in shorter : Len(t) = n - 1}, c \in Alphabet}

Texts == StringsUpTo(MaxLen) \cup Examples

MinLengths == -1 .. 4
MaxLengths == {2, 3, 4, 50}

---------------------------------------------------------------------------
(* Character classes of the regular expressions *)

\* [א-ת]
IsHebrewLetter(c) == c >= 1488 /\ c <= 1514

\* [֑-ׇ]
IsNiqqud(c) == c >= 1425 /\ c <= 1479

\* \s, and the characters String.prototype.trim removes
IsWhitespace(c) ==
  c \in {9, 10, 11, 12, 13, 32, 160, 5760, 8232, 8233, 8239, 8287, 12288, 65279}
  \/ (c >= 8192 /\ c <= 8202)

\* [,:\s]
IsSeparator(c) == c = 44 \/ c = 58 \/ IsWhitespace(c)

\* ["'״׳(]
IsOpener(c) == c \in {34, 39, 1524, 1523, 40}

\* ["'״׳)]
IsCloser(c) == c \in {34, 39, 1524, 1523, 41}

---------------------------------------------------------------------------
(* citationPattern: positions are 1-based, an end is the index after the   *)
(* last matched unit.                                                      *)

\* number of consecutive units of s from position p on that satisfy the class, at most cap
RECURSIVE LetterRun(_, _, _)
LetterRun(s, p, cap) ==
  IF cap = 0 \/ p > Len(s) \/ ~IsHebrewLetter(s[p]) THEN 0
  ELSE 1 + LetterRun(s, p + 1, cap - 1)

RECURSIVE SeparatorRun(_, _)
SeparatorRun(s, p) ==
  IF p > Len(s) \/ ~IsSeparator(s[p]) THEN 0
  ELSE 1 + SeparatorRun(s, p + 1)

\* [א-ת]{1,3}["'״׳)]? at p: greedy, nothing after it can fail
SecondGroupEnd(s, p) ==
  LET k == LetterRun(s, p, 3)
      q == p + k
  IN  IF k = 0 THEN 0
      ELSE IF q <= Len(s) /\ IsCloser(s[q]) THEN q + 1 ELSE q

\* [,:\s]+ then the second group, at p: the longest separator run first
SeparatorsEnd(s, p) ==
  LET ms == {m \in 1 .. SeparatorRun(s, p) : SecondGroupEnd(s, p + m) # 0}
  IN  IF ms = {} THEN 0
      ELSE SecondGroupEnd(s, p + (CHOOSE m \in ms : \A n \in ms : n <= m))

\* [א-ת]{1,3} then the rest, at p: the longest letter group first
FirstGroupEnd(s, p) ==
  LET ks == {k \in 1 .. LetterRun(s, p, 3) : SeparatorsEnd(s, p + k) # 0}
  IN  IF ks = {} THEN 0
      ELSE SeparatorsEnd(s, p + (CHOOSE k \in ks : \A n \in ks : n <= k))

\* the whole pattern at p: the optional opener is taken first, given up on failure;
\* 0 when there is no match at p
CitationMatchEnd(s, p) ==
  IF p <= Len(s) /\ IsOpener(s[p]) /\ FirstGroupEnd(s, p + 1) # 0
  THEN FirstGroupEnd(s, p + 1)
  ELSE FirstGroupEnd(s, p)

\* text.replace(citationPattern, ' ') from position p on
RECURSIVE ReplaceCitations(_, _)
ReplaceCitations(s, p) ==
  IF p > Len(s) THEN <<>>
  ELSE LET e == CitationMatchEnd(s, p)
       IN  IF e # 0 THEN <<32>> \o ReplaceCitations(s, e)
           ELSE <<s[p]>> \o ReplaceCitations(s, p + 1)

\* cleanText.replace(/[֑-ׇ]/g, '')
RemoveNiqqud(s) == SelectSeq(s, LAMBDA c : ~IsNiqqud(c))

---------------------------------------------------------------------------
(* normalizeHebrew *)

\* sofitMap with a wrong value: final mem is mapped to final nun
sofitMap_WrongTarget(c) ==
  CASE c = 1498 -> 1499
    [] c = 1501 -> 1503
    [] c = 1503 -> 1504
    [] c = 1507 -> 1508
    [] c = 1509 -> 1510
    [] OTHER -> 0

\* sofitMap without the entry for final mem
sofitMap_MissingMem(c) ==
  CASE c = 1498 -> 1499
    [] c = 1503 -> 1504
    [] c = 1507 -> 1508
    [] c = 1509 -> 1510
    [] OTHER -> 0

\* sofitMap[char]: ך -> כ, ם -> מ, ן -> נ, ף -> פ, ץ -> צ; 0 stands for undefined
sofitMap(c) ==
  CASE c = 1498 -> 1499
    [] c = 1501 -> 1502
    [] c = 1503 -> 1504
    [] c = 1507 -> 1508
    [] c = 1509 -> 1510
    [] OTHER -> 0

\* the loop over cleanText: a final letter is replaced, another letter kept,
\* anything else dropped
RECURSIVE FoldLetters(_, _)
FoldLetters(cleanText, p) ==
  IF p > Len(cleanText) THEN <<>>
  ELSE LET char == cleanText[p]
       IN  (IF sofitMap(char) # 0 THEN <<sofitMap(char)>>
            ELSE IF IsHebrewLetter(char) THEN <<char>>
            ELSE <<>>) \o FoldLetters(cleanText, p + 1)

normalizeHebrew(s) == FoldLetters(RemoveNiqqud(ReplaceCitations(s, 1)), 1)

---------------------------------------------------------------------------
(* isPalindrome *)

\* str.split('').reverse().join('')
Reverse(str) == [k \in 1 .. Len(str) |-> str[Len(str) + 1 - k]]

\* isPalindrome without the comparison with the reversed string
isPalindrome_NoCompare(str) == Len(str) >= 3

\* isPalindrome without the minimum of 3
isPalindrome_NoMinimum(str) == str = Reverse(str)

isPalindrome(str) ==
  IF Len(str) < 3 THEN FALSE
  ELSE str = Reverse(str)

---------------------------------------------------------------------------
(* findPalindromes *)

\* text.substring(i, j) for 0 <= i <= j <= text.length
Substring(s, i, j) == SubSeq(s, i + 1, j)

\* String.prototype.trim
RECURSIVE TrimStart(_)
TrimStart(s) ==
  IF s # <<>> /\ IsWhitespace(s[1]) THEN TrimStart(Tail(s)) ELSE s

RECURSIVE TrimEnd(_)
TrimEnd(s) ==
  IF s # <<>> /\ IsWhitespace(s[Len(s)]) THEN TrimEnd(SubSeq(s, 1, Len(s) - 1)) ELSE s

Trim(s) == TrimEnd(TrimStart(s))

\* lastChar = originalSub.trim().slice(-1); lastChar.match(/[א-ת]/)
LastCharIsLetter(originalSub) ==
  LET trimmed == Trim(originalSub)
  IN  trimmed # <<>> /\ IsHebrewLetter(trimmed[Len(trimmed)])

\* the cap taken one too high
ExceedsMax_OffByOne(normalizedSub, maxLen) == Len(normalizedSub) > maxLen + 1

\* normalizedSub.length > maxLength
ExceedsMax(normalizedSub, maxLen) == Len(normalizedSub) > maxLen

\* the minimum compared with <=
BelowMin_Inclusive(normalizedSub, minLen) == Len(normalizedSub) <= minLen

\* normalizedSub.length < minLength
BelowMin(normalizedSub, minLen) == Len(normalizedSub) < minLen

\* let j = i + 2
FirstEnd(i) == i + 2

\* the test of the start index left out
StartsOnLetter_Always(s, i) == TRUE

\* text[i].match(/[א-ת]/)
StartsOnLetter(s, i) == IsHebrewLetter(s[i + 1])

\* the two text fields taken from each other's value
PalindromeResult_FieldsSwapped(originalSub, normalizedSub) ==
  [normalized |-> Trim(originalSub),
   original   |-> normalizedSub,
   length     |-> Len(normalizedSub)]

\* the object pushed: { normalized: normalizedSub, original: originalSub.trim(),
\* length: normalizedSub.length }
PalindromeResult(originalSub, normalizedSub) ==
  [normalized |-> normalizedSub,
   original   |-> Trim(originalSub),
   length     |-> Len(normalizedSub)]

\* the inner loop from end index j on: the candidates pushed, in order
RECURSIVE InnerLoop(_, _, _, _, _)
InnerLoop(s, i, j, minLen, maxLen) ==
  IF j > Len(s) THEN <<>>
  ELSE LET originalSub   == Substring(s, i, j)
           normalizedSub == normalizeHebrew(originalSub)
       IN  IF ExceedsMax(normalizedSub, maxLen) THEN <<>>
           ELSE IF BelowMin(normalizedSub, minLen) THEN InnerLoop(s, i, j + 1, minLen, maxLen)
           ELSE (IF isPalindrome(normalizedSub) /\ LastCharIsLetter(originalSub)
                 THEN <<PalindromeResult(originalSub, normalizedSub)>>
                 ELSE <<>>) \o InnerLoop(s, i, j + 1, minLen, maxLen)

\* the outer loop from start index i on
RECURSIVE OuterLoop(_, _, _, _)
OuterLoop(s, i, minLen, maxLen) ==
  IF i >= Len(s) THEN <<>>
  ELSE (IF ~StartsOnLetter(s, i) THEN <<>>
        ELSE InnerLoop(s, i, FirstEnd(i), minLen, maxLen))
       \o OuterLoop(s, i + 1, minLen, maxLen)

\* the comparator result tested with >= 0: an entry goes before its ties
InsertByLength_BeforeTies(sorted, res) ==
  LET n == Cardinality({k \in 1 .. Len(sorted) : sorted[k].length > res.length})
  IN  SubSeq(sorted, 1, n) \o <<res>> \o SubSeq(sorted, n + 1, Len(sorted))

\* res inserted into a list sorted by length descending, after every entry
\* it is not longer than (the sort is stable)
RECURSIVE InsertByLength(_, _)
InsertByLength(sorted, res) ==
  IF sorted = <<>> THEN <<res>>
  ELSE IF res.length - sorted[Len(sorted)].length > 0
       THEN InsertByLength(SubSeq(sorted, 1, Len(sorted) - 1), res) \o <<sorted[Len(sorted)]>>
       ELSE Append(sorted, res)

\* the sort left out
SortByLength_NoSort(results) == results

\* results.sort((a, b) => b.length - a.length)
RECURSIVE SortByLength(_)
SortByLength(results) ==
  IF results = <<>> THEN <<>>
  ELSE InsertByLength(SortByLength(SubSeq(results, 1, Len(results) - 1)),
                      results[Len(results)])

\* every result kept
UniqueValues_KeepAll(results) == results

\* unique.set without the test of unique.has: the first position, the last value
RECURSIVE UniqueValues_KeepLast(_)
UniqueValues_KeepLast(results) ==
  IF results = <<>> THEN <<>>
  ELSE LET kept == UniqueValues_KeepLast(SubSeq(results, 1, Len(results) - 1))
           res  == results[Len(results)]
       IN  IF \E k \in 1 .. Len(kept) : kept[k].normalized = res.normalized
           THEN [k \in 1 .. Len(kept) |->
                   IF kept[k].normalized = res.normalized THEN res ELSE kept[k]]
           ELSE Append(kept, res)

\* unique.set under !unique.has, then Array.from(unique.values()): the first
\* entry of each normalized form, in insertion order
RECURSIVE UniqueValues(_)
UniqueValues(results) ==
  IF results = <<>> THEN <<>>
  ELSE LET kept == UniqueValues(SubSeq(results, 1, Len(results) - 1))
           res  == results[Len(results)]
       IN  IF \E k \in 1 .. Len(kept) : kept[k].normalized = res.normalized
           THEN kept
           ELSE Append(kept, res)

findPalindromes(s, minLen, maxLen) ==
  UniqueValues(SortByLength(OuterLoop(s, 0, minLen, maxLen)))

---------------------------------------------------------------------------
(* The callers: one call of an exported function on the input text *)

\* useState('') and useState([]): the App component before any event
AppInitial ==
  /\ inputText = <<>>
  /\ resultsState = <<>>
  /\ error = ""
  /\ objs = <<>>
  /\ rendered = {<<>>}
  /\ pending = {}
  /\ nextReq = 1
  /\ lastReplaced = <<>>

Init ==
  /\ text \in Texts
  /\ called = "none"
  /\ minLength = 3
  /\ maxLength = 50
  /\ ret = <<>>
  /\ norm = <<>>
  /\ AppInitial

NormalizeHebrewCall ==
  /\ called = "none"
  /\ called' = "normalizeHebrew"
  /\ norm' = normalizeHebrew(text)
  /\ UNCHANGED <<text, minLength, maxLength, ret>>
  /\ UNCHANGED appVars

FindPalindromesCall ==
  /\ called = "none"
  /\ \E minLen \in MinLengths, maxLen \in MaxLengths :
       /\ minLength' = minLen
       /\ maxLength' = maxLen
       /\ ret' = findPalindromes(text, minLen, maxLen)
  /\ called' = "findPalindromes"
  /\ UNCHANGED <<text, norm>>
  /\ UNCHANGED appVars

Next == NormalizeHebrewCall \/ FindPalindromesCall

Spec == Init /\ [][Next]_vars

---------------------------------------------------------------------------
(* Properties of findPalindromes *)

\* the spans text.substring(i, j) the scan can look at
Spans == {ij \in (0 .. Len(text)) \X (0 .. Len(text)) : ij[1] + 2 <= ij[2]}

\* C1: every entry returned by findPalindromes has a normalized field that
\* reads the same in both directions.
C1_NormalizedIsPalindrome ==
  called = "findPalindromes" =>
    \A k \in 1 .. Len(ret) :
      LET n == ret[k].normalized
      IN  \A m \in 1 .. Len(n) : n[m] = n[Len(n) + 1 - m]

\* C1 happens: something is returned although the text also holds a span of
\* admissible length that is no palindrome.
C1_Witness ==
  /\ called = "findPalindromes"
  /\ ret # <<>>
  /\ \E ij \in Spans :
       LET n == normalizeHebrew(Substring(text, ij[1], ij[2]))
       IN  /\ Len(n) >= 3 /\ Len(n) >= minLength /\ Len(n) <= maxLength
           /\ \E m \in 1 .. Len(n) : n[m] # n[Len(n) + 1 - m]

\* C2: every returned entry has length equal to the number of characters of
\* its normalized field, that number lies in [minLength, maxLength], and
\* nothing is returned when maxLength < minLength.
C2_LengthWithinBounds ==
  called = "findPalindromes" =>
    /\ \A k \in 1 .. Len(ret) :
         /\ ret[k].length = Len(ret[k].normalized)
         /\ minLength <= Len(ret[k].normalized)
         /\ Len(ret[k].normalized) <= maxLength
    /\ (maxLength < minLength => ret = <<>>)

\* C2 happens: something is returned while a palindromic span of the text is
\* longer than maxLength.
C2_Witness ==
  /\ called = "findPalindromes"
  /\ ret # <<>>
  /\ \E ij \in Spans :
       LET n == normalizeHebrew(Substring(text, ij[1], ij[2]))
       IN  Len(n) > maxLength /\ n = Reverse(n)
                              /\ IsHebrewLetter(text[ij[1] + 1])
                              /\ IsHebrewLetter(text[ij[2]])

\* C3: no two returned entries have the same normalized field.
C3_NoDuplicateNormalized ==
  called = "findPalindromes" =>
    \A k, m \in 1 .. Len(ret) : ret[k].normalized = ret[m].normalized => k = m

\* C3 happens: the scan found one normalized form more than once.
C3_Witness ==
  /\ called = "findPalindromes"
  /\ LET results == OuterLoop(text, 0, minLength, maxLength)
     IN  \E k, m \in 1 .. Len(results) :
           k # m /\ results[k].normalized = results[m].normalized

\* C4: the returned list is ordered by length descending.
C4_SortedByLengthDescending ==
  called = "findPalindromes" =>
    \A p, q \in 1 .. Len(ret) : p < q => ret[p].length >= ret[q].length

\* C4 happens: the scan found a shorter form before a longer one, and both
\* are returned.
C4_Witness ==
  /\ called = "findPalindromes"
  /\ Len(ret) >= 2
  /\ LET results == OuterLoop(text, 0, minLength, maxLength)
     IN  \E p, q \in 1 .. Len(results) : p < q /\ results[p].length < results[q].length

\* C5: normalizeHebrew("שלום מט,י עולם") removes only the citation token and
\* returns the letters of the two words around it, "שלומעולמ".
C5_CitationKeepsWords ==
  (called = "normalizeHebrew" /\ text = TextShalom) =>
    norm = <<1513, 1500, 1493, 1502, 1506, 1493, 1500, 1502>>

\* C6: a span made of Hebrew letters only whose final-folded form is a
\* palindrome of length L, max(3, minLength) <= L <= maxLength, is returned:
\* some entry has that folded form as its normalized field.
C6_LetterRunPalindromeFound ==
  called = "findPalindromes" =>
    \A ij \in Spans :
      LET span   == Substring(text, ij[1], ij[2])
          folded == [k \in 1 .. Len(span) |->
                       IF span[k] \in {1498, 1501, 1503, 1507, 1509}
                       THEN span[k] + 1 ELSE span[k]]
          L      == Len(span)
      IN  ( /\ \A k \in 1 .. L : IsHebrewLetter(span[k])
            /\ \A k \in 1 .. L : folded[k] = folded[L + 1 - k]
            /\ L >= 3 /\ L >= minLength /\ L <= maxLength )
          => \E k \in 1 .. Len(ret) : ret[k].normalized = folded

\* C6 happens: the text holds a letter-only span with a final letter in it
\* whose folded form is a palindrome of admissible length.
C6_Witness ==
  /\ called = "findPalindromes"
  /\ ret # <<>>
  /\ \E ij \in Spans :
       LET span == Substring(text, ij[1], ij[2])
           L    == Len(span)
       IN  /\ \A k \in 1 .. L : IsHebrewLetter(span[k])
           /\ \E k \in 1 .. L : span[k] = 1501
           /\ \A k \in 1 .. L : span[k] = span[L + 1 - k]
           /\ L >= 3 /\ L = minLength /\ L <= maxLength

\* C8: every returned original has no whitespace at either end and begins and
\* ends with a Hebrew letter.
C8_OriginalWellBounded ==
  called = "findPalindromes" =>
    \A k \in 1 .. Len(ret) :
      LET o == ret[k].original
      IN  /\ o # <<>>
          /\ ~IsWhitespace(o[1]) /\ ~IsWhitespace(o[Len(o)])
          /\ IsHebrewLetter(o[1]) /\ IsHebrewLetter(o[Len(o)])

\* C8 happens: a span that normalizes to an admissible palindrome ends, once
\* trimmed, in something that is no letter, while another span is returned.
C8_Witness ==
  /\ called = "findPalindromes"
  /\ ret # <<>>
  /\ \E ij \in Spans :
       LET span == Substring(text, ij[1], ij[2])
           n    == normalizeHebrew(span)
           t    == Trim(span)
       IN  /\ IsHebrewLetter(span[1])
           /\ isPalindrome(n) /\ Len(n) >= minLength /\ Len(n) <= maxLength
           /\ ~IsHebrewLetter(t[Len(t)])

\* C9: whatever minLength is, no returned normalized field is shorter than 3.
C9_NeverShorterThanThree ==
  called = "findPalindromes" =>
    \A k \in 1 .. Len(ret) : Len(ret[k].normalized) >= 3

\* C9 happens: minLength is below 3 and a span of the text normalizes to a
\* mirrored pair of two letters.
C9_Witness ==
  /\ called = "findPalindromes"
  /\ minLength < 3
  /\ maxLength >= 2
  /\ \E ij \in Spans :
       LET span == Substring(text, ij[1], ij[2])
           n    == normalizeHebrew(span)
       IN  /\ IsHebrewLetter(span[1]) /\ IsHebrewLetter(span[Len(span)])
           /\ Len(n) = 2 /\ n[1] = n[2]

---------------------------------------------------------------------------
(* Properties of normalizeHebrew *)

\* C7: normalizing the result of normalizeHebrew again changes nothing.
C7_NormalizeIdempotent ==
  called = "normalizeHebrew" => normalizeHebrew(norm) = norm

\* C7 happens: the first normalization removed or folded something and left
\* something.
C7_Witness ==
  /\ called = "normalizeHebrew"
  /\ norm # <<>>
  /\ norm # text
  /\ \E k \in 1 .. Len(text) : text[k] = 1501

\* C10: each final letter and its base form, as a one-letter text, normalize
\* to the base form; every output holds base letters only, no final form and
\* nothing outside U+05D0..U+05EA.
C10_FinalLettersFolded ==
  called = "normalizeHebrew" =>
    /\ \A b \in {1499, 1502, 1504, 1508, 1510} :
         (text = <<b - 1>> \/ text = <<b>>) => norm = <<b>>
    /\ \A k \in 1 .. Len(norm) :
         /\ norm[k] >= 1488 /\ norm[k] <= 1514
         /\ norm[k] \notin {1498, 1501, 1503, 1507, 1509}

\* C10 happens: a text with a final letter in it has been normalized to a
\* non-empty result.
C10_Witness ==
  /\ called = "normalizeHebrew"
  /\ norm # <<>>
  /\ \E k \in 1 .. Len(text) : text[k] \in {1498, 1501, 1503, 1507, 1509}

---------------------------------------------------------------------------
(* The early exit of the inner loop *)

\* the inner loop with the break on maxLength turned into a skip of that span
RECURSIVE InnerLoopSkipping(_, _, _, _, _)
InnerLoopSkipping(s, i, j, minLen, maxLen) ==
  IF j > Len(s) THEN <<>>
  ELSE LET originalSub   == Substring(s, i, j)
           normalizedSub == normalizeHebrew(originalSub)
       IN  (IF /\ ~ExceedsMax(normalizedSub, maxLen)
               /\ ~BelowMin(normalizedSub, minLen)
               /\ isPalindrome(normalizedSub)
               /\ LastCharIsLetter(originalSub)
            THEN <<normalizedSub>>
            ELSE <<>>) \o InnerLoopSkipping(s, i, j + 1, minLen, maxLen)

\* the normalized forms the skipping scan finds
FormsOfSkippingScan ==
  UNION {{InnerLoopSkipping(text, i, FirstEnd(i), minLength, maxLength)[k] :
            k \in 1 .. Len(InnerLoopSkipping(text, i, FirstEnd(i), minLength, maxLength))} :
         i \in {n \in 0 .. Len(text) - 1 : StartsOnLetter(text, n)}}

\* C11: findPalindromes returns the same set of normalized forms as a scan
\* that skips a span whose normalized length exceeds maxLength and goes on
\* extending it.
C11_EarlyExitLosesNothing ==
  called = "findPalindromes" =>
    {ret[k].normalized : k \in 1 .. Len(ret)} = FormsOfSkippingScan

---------------------------------------------------------------------------
(* Which candidate the deduplication keeps *)

\* the candidates pushed for start index i, in the order of the end index
CandidatesFrom(i) ==
  IF StartsOnLetter(text, i)
  THEN InnerLoop(text, i, FirstEnd(i), minLength, maxLength)
  ELSE <<>>

\* the start indexes with a candidate of the given normalized form
StartsOfForm(form) ==
  {i \in 0 .. Len(text) - 1 :
     \E m \in 1 .. Len(CandidatesFrom(i)) : CandidatesFrom(i)[m].normalized = form}

\* C12 as stated: the entry returned for a normalized form carries the longest
\* original among the accepted candidates of that form.
C12_KeepsLongestOriginal ==
  called = "findPalindromes" =>
    \A k \in 1 .. Len(ret) :
      \A i \in 0 .. Len(text) - 1 :
        \A m \in 1 .. Len(CandidatesFrom(i)) :
          CandidatesFrom(i)[m].normalized = ret[k].normalized
            => Len(ret[k].original) >= Len(CandidatesFrom(i)[m].original)

\* C12 amended: the entry returned for a normalized form is a candidate of the
\* smallest start index that has that form, and no candidate of that form at
\* that start index has a shorter original.
C12_KeepsEarliestStart ==
  called = "findPalindromes" =>
    \A k \in 1 .. Len(ret) :
      LET starts == StartsOfForm(ret[k].normalized)
      IN  /\ starts # {}
          /\ LET i0 == CHOOSE i \in starts : \A n \in starts : i <= n
             IN  /\ \E m \in 1 .. Len(CandidatesFrom(i0)) : CandidatesFrom(i0)[m] = ret[k]
                 /\ \A m \in 1 .. Len(CandidatesFrom(i0)) :
                      CandidatesFrom(i0)[m].normalized = ret[k].normalized
                        => Len(ret[k].original) <= Len(CandidatesFrom(i0)[m].original)

\* C12 happens: a candidate with the form of a returned entry starts later
\* than another one and has a longer original than the entry.
C12_Witness ==
  /\ called = "findPalindromes"
  /\ \E k \in 1 .. Len(ret) :
       \E i \in StartsOfForm(ret[k].normalized) :
         /\ \E n \in StartsOfForm(ret[k].normalized) : n < i
         /\ \E m \in 1 .. Len(CandidatesFrom(i)) :
              /\ CandidatesFrom(i)[m].normalized = ret[k].normalized
              /\ Len(CandidatesFrom(i)[m].original) > Len(ret[k].original)

\* the scan reaches end index j from start index i and pushes that span
Accepted(i, j) ==
  LET normalizedAt(e) == normalizeHebrew(Substring(text, i, e))
  IN  /\ IsHebrewLetter(text[i + 1])
      /\ \A e \in i + 2 .. j : Len(normalizedAt(e)) <= maxLength
      /\ Len(normalizedAt(j)) >= minLength
      /\ isPalindrome(normalizedAt(j))
      /\ LET t == Trim(Substring(text, i, j))
         IN  t # <<>> /\ IsHebrewLetter(t[Len(t)])

\* the accepted spans of the given normalized form
AcceptedOfForm(form) ==
  {ij \in Spans : Accepted(ij[1], ij[2])
                  /\ normalizeHebrew(Substring(text, ij[1], ij[2])) = form}

\* C13: the entry returned for a normalized form is the first accepted
\* candidate of that form in scan order: smallest start index i, then
\* smallest end index j.
C13_KeepsFirstInScanOrder ==
  called = "findPalindromes" =>
    \A k \in 1 .. Len(ret) :
      LET spans == AcceptedOfForm(ret[k].normalized)
      IN  /\ spans # {}
          /\ LET first == CHOOSE ij \in spans :
                            \A other \in spans :
                              \/ ij[1] < other[1]
                              \/ (ij[1] = other[1] /\ ij[2] <= other[2])
             IN  ret[k].original = Trim(Substring(text, first[1], first[2]))

\* C13 happens: two accepted spans with the same start index and the same
\* normalized form have different originals.
C13_Witness ==
  /\ called = "findPalindromes"
  /\ \E k \in 1 .. Len(ret) :
       \E a, b \in AcceptedOfForm(ret[k].normalized) :
         /\ a[1] = b[1]
         /\ Trim(Substring(text, a[1], a[2])) # Trim(Substring(text, b[1], b[2]))

---------------------------------------------------------------------------
(* minLength below the minimum of isPalindrome; the two text fields *)

\* C14: with any minLength <= 3, zero and negative values included,
\* findPalindromes returns the list it returns with minLength = 3.
C14_MinLengthClampedAtThree ==
  (called = "findPalindromes" /\ minLength <= 3) =>
    ret = findPalindromes(text, 3, maxLength)

\* C14 happens: minLength is below 3, a span starting on a letter normalizes
\* to fewer than 3 but at least minLength letters, and something is returned.
C14_Witness ==
  /\ called = "findPalindromes"
  /\ minLength < 3
  /\ ret # <<>>
  /\ \E ij \in Spans :
       LET n == normalizeHebrew(Substring(text, ij[1], ij[2]))
       IN  IsHebrewLetter(text[ij[1] + 1]) /\ Len(n) < 3 /\ Len(n) >= minLength

\* C15: for every returned entry, normalizeHebrew(original) = normalized.
C15_OriginalNormalizesToNormalized ==
  called = "findPalindromes" =>
    \A k \in 1 .. Len(ret) : normalizeHebrew(ret[k].original) = ret[k].normalized

\* C15 happens: a returned original differs from its normalized form, and an
\* accepted span of that form ends in whitespace that trim removes.
C15_Witness ==
  /\ called = "findPalindromes"
  /\ \E k \in 1 .. Len(ret) :
       /\ ret[k].original # ret[k].normalized
       /\ \E ij \in AcceptedOfForm(ret[k].normalized) : IsWhitespace(text[ij[2]])

---------------------------------------------------------------------------
(* App.tsx: the result list and the source lookups *)

\* result objects handleSearch may create in one run
MaxObjects == 2

\* identifySource requests lookupSource may issue in one run
MaxLookups == 2

\* "אבא" and "אאאא"
AppTexts == {<<>>, <<1488, 1489, 1488>>, <<1488, 1488, 1488, 1488>>}

\* result.source of an entry without a source
NoSource == "undefined"

\* what identifySource can resolve with when found is true
Sources == {"book chapter:verse"}

\* found.map(f => ({ ...f, isCheckingSource: false }))
ExtendedResult(f) ==
  [normalized |-> f.normalized, original |-> f.original, length |-> f.length,
   isCheckingSource |-> FALSE, source |-> NoSource]

\* the guard of lookupSource testing the source only
AlreadyLooked_SourceOnly(result) == result.source # NoSource

\* result.source || result.isCheckingSource
AlreadyLooked(result) == result.source # NoSource \/ result.isCheckingSource

\* the flag left as it is
ReleaseFlag_Forgotten(os, o) == os

\* errorResults[index].isCheckingSource = false, on the object itself
ReleaseFlag(os, o) == [os EXCEPT ![o].isCheckingSource = FALSE]

\* the result object at index of an array
EntryOf(arr, index) == arr[index + 1]

\* onInputChange = setInputText
SetInputText ==
  /\ \E t \in AppTexts : inputText' = t
  /\ UNCHANGED <<resultsState, error, objs, rendered, pending, nextReq, lastReplaced>>
  /\ UNCHANGED hebrewVars

handleSearch ==
  /\ IF Trim(inputText) = <<>>
     THEN /\ error' = "enter text"
          /\ UNCHANGED <<resultsState, objs, rendered, lastReplaced>>
     ELSE LET found == findPalindromes(inputText, 3, 50)
              extendedResults == [k \in 1 .. Len(found) |-> Len(objs) + k]
          IN  /\ Len(objs) + Len(found) <= MaxObjects
              /\ error' = ""
              /\ objs' = objs \o [k \in 1 .. Len(found) |-> ExtendedResult(found[k])]
              /\ resultsState' = extendedResults
              /\ rendered' = rendered \cup {extendedResults}
              /\ lastReplaced' = extendedResults
  /\ UNCHANGED <<inputText, pending, nextReq>>
  /\ UNCHANGED hebrewVars

\* a lookupSource callback is called with an index of the list it was rendered with
lookupSource ==
  \E arr \in rendered : \E index \in 0 .. Len(arr) - 1 :
    LET o == EntryOf(arr, index)
    IN  /\ IF AlreadyLooked(objs[o])
           THEN UNCHANGED <<resultsState, objs, rendered, pending, nextReq>>
           ELSE /\ nextReq <= MaxLookups
                /\ objs' = [objs EXCEPT ![o].isCheckingSource = TRUE]
                /\ resultsState' = arr
                /\ pending' = pending \cup
                     {[req |-> nextReq, arr |-> arr, index |-> index, base |-> lastReplaced]}
                /\ nextReq' = nextReq + 1
                /\ UNCHANGED rendered
        /\ UNCHANGED <<inputText, error, lastReplaced>>
        /\ UNCHANGED hebrewVars

\* identifySource resolves with found = true
IdentifyFound(p) ==
  /\ p \in pending
  /\ \E src \in Sources :
       objs' = [ReleaseFlag(objs, EntryOf(p.arr, p.index))
                  EXCEPT ![EntryOf(p.arr, p.index)].source = src]
  /\ resultsState' = p.arr
  /\ pending' = pending \ {p}
  /\ UNCHANGED <<inputText, error, rendered, nextReq, lastReplaced>>
  /\ UNCHANGED hebrewVars

\* identifySource resolves with found = false
IdentifyNotFound(p) ==
  /\ p \in pending
  /\ objs' = ReleaseFlag(objs, EntryOf(p.arr, p.index))
  /\ error' = "no source found"
  /\ resultsState' = p.arr
  /\ pending' = pending \ {p}
  /\ UNCHANGED <<inputText, rendered, nextReq, lastReplaced>>
  /\ UNCHANGED hebrewVars

\* identifySource rejects
IdentifyRejects(p) ==
  /\ p \in pending
  /\ objs' = ReleaseFlag(objs, EntryOf(p.arr, p.index))
  /\ resultsState' = p.arr
  /\ error' = "lookup error"
  /\ pending' = pending \ {p}
  /\ UNCHANGED <<inputText, rendered, nextReq, lastReplaced>>
  /\ UNCHANGED hebrewVars

\* the continuation of lookupSource after the await
LookupSettles ==
  \E p \in pending : IdentifyFound(p) \/ IdentifyNotFound(p) \/ IdentifyRejects(p)

clearAll ==
  /\ inputText' = <<>>
  /\ resultsState' = <<>>
  /\ error' = ""
  /\ rendered' = rendered \cup {<<>>}
  /\ lastReplaced' = <<>>
  /\ UNCHANGED <<objs, pending, nextReq>>
  /\ UNCHANGED hebrewVars

InitApp ==
  /\ text = <<>>
  /\ called = "none"
  /\ minLength = 3
  /\ maxLength = 50
  /\ ret = <<>>
  /\ norm = <<>>
  /\ AppInitial

NextApp ==
  \/ SetInputText
  \/ handleSearch
  \/ lookupSource
  \/ \E p \in pending : IdentifyFound(p)
  \/ \E p \in pending : IdentifyNotFound(p)
  \/ \E p \in pending : IdentifyRejects(p)
  \/ clearAll

SpecApp == InitApp /\ [][NextApp]_vars

\* every identifySource call resolves or rejects
SpecAppFair == SpecApp /\ WF_vars(LookupSettles)

---------------------------------------------------------------------------
(* Properties of the source lookups *)

\* the requests in flight for result object o
InFlightFor(o) == {p \in pending : EntryOf(p.arr, p.index) = o}

\* C16: at most one identifySource request is in flight per result entry, and
\* a lookupSource call for an entry that is being checked or has a source
\* issues no request, whichever render's callback makes the call.
C16_OneLookupPerEntry ==
  /\ [](\A o \in DOMAIN objs : Cardinality(InFlightFor(o)) <= 1)
  /\ [][\A p \in pending' \ pending :
          /\ ~objs[EntryOf(p.arr, p.index)].isCheckingSource
          /\ objs[EntryOf(p.arr, p.index)].source = NoSource]_vars

\* C16 happens: a lookup is in flight for an entry of a list that is no longer
\* displayed, a second lookup has been issued, and some entry has a source.
C16_Witness ==
  /\ \E p \in pending : p.arr # resultsState
  /\ nextReq > 2
  /\ \E o \in DOMAIN objs : objs[o].source # NoSource

\* C17: a lookup that was started before handleSearch or clearAll replaced the
\* results list and settles after it leaves the displayed list equal to the
\* one that handleSearch or clearAll set.
C17_LateLookupKeepsResults ==
  [][\A p \in pending :
       (p \notin pending' /\ p.base # lastReplaced) => resultsState' = lastReplaced]_vars

\* C18: an entry whose isCheckingSource is true eventually has it false again,
\* and a source is attached only when identifySource resolves with found = true.
C18_FlagReleased ==
  /\ \A o \in 1 .. MaxObjects :
       (o \in DOMAIN objs /\ objs[o].isCheckingSource)
         ~> (o \in DOMAIN objs /\ ~objs[o].isCheckingSource)
  /\ [][(\E o \in DOMAIN objs : objs'[o].source # objs[o].source)
          => \E p \in pending : IdentifyFound(p)]_vars

\* C18 happens: every lookup has settled, the last one by a rejection, one
\* entry got a source and another one was released without a source.
C18_Witness ==
  /\ pending = {}
  /\ error = "lookup error"
  /\ \E o \in DOMAIN objs : objs[o].source # NoSource /\ ~objs[o].isCheckingSource
  /\ \E o \in DOMAIN objs : objs[o].source = NoSource /\ ~objs[o].isCheckingSource
  /\ nextReq > 2

====
